---- MODULE Spec2Model ----
(***************************************************************************)
(* Cyber-Sentinel: the phishing URL analyzer panel (src/SingleFileApp.tsx) *)
(* mounted by the application shell (src/unnamed/part_000).                *)
(*                                                                         *)
(* Text that the code inspects character by character (the JSON reply of   *)
(* the generative service, the indicator strings the keyword regex is run  *)
(* on) is a sequence of one-character strings.  Text the code only passes  *)
(* along or tests for emptiness (the URL, the error messages) is a string. *)
(***************************************************************************)
EXTENDS Integers, Sequences, FiniteSets, TLC

\* ------------------------------------------------------------------------
\* Bounds of the model
\* ------------------------------------------------------------------------

\* Remote calls issued during one run of the application.
MaxCalls == 3

\* Times the phishing panel is mounted during one run of the application.
MaxMounts == 2

\* ------------------------------------------------------------------------
\* Text constants
\* ------------------------------------------------------------------------

\* Property names of PhishingAnalysisResult.
K_isPhishing ==
    <<"i", "s", "P", "h", "i", "s", "h", "i", "n", "g">>

K_confidence ==
    <<"c", "o", "n", "f", "i", "d", "e", "n", "c", "e">>

K_explanation ==
    <<"e", "x", "p", "l", "a", "n", "a", "t", "i", "o", "n">>

K_indicators ==
    <<"i", "n", "d", "i", "c", "a", "t", "o", "r", "s">>

\* Values of the confidence enumeration used by the modelled service.
S_High ==
    <<"H", "i", "g", "h">>

S_Low ==
    <<"L", "o", "w">>

S_None ==
    <<"N", "o", "n", "e">>

\* The explanation text of the modelled replies.
S_Expl ==
    <<".", ".", ".">>

\* Indicator strings the modelled service returns.
I_SuspiciousSubdomain ==
    <<"S", "u", "s", "p", "i", "c", "i", "o", "u", "s", " ", "s", "u", "b", "d", "o", "m", "a", "i", "n">>

I_UsesHttpNotHttps ==
    <<"U", "s", "e", "s", " ", "H", "T", "T", "P", " ", "n", "o", "t", " ", "H", "T", "T", "P", "S">>

I_UsesHttpsLower ==
    <<"u", "s", "e", "s", " ", "h", "t", "t", "p", "s">>

I_KnownLegitimate ==
    <<"K", "n", "o", "w", "n", " ", "L", "e", "g", "i", "t", "i", "m", "a", "t", "e", " ", "d", "o", "m", "a", "i", "n">>

I_InvalidCert ==
    <<"I", "n", "v", "a", "l", "i", "d", " ", "c", "e", "r", "t">>

I_HttpOnly ==
    <<"H", "T", "T", "P", " ", "o", "n", "l", "y">>

I_TrustedCA ==
    <<"T", "R", "U", "S", "T", "E", "D", " ", "C", "A">>

I_Secur ==
    <<"S", "e", "c", "u", "r", " ", "e">>

\* The alternatives of the regular expression /(HTTPS|legitimate|secure|trusted|valid)/i.
Alt_HTTPS ==
    <<"H", "T", "T", "P", "S">>

Alt_legitimate ==
    <<"l", "e", "g", "i", "t", "i", "m", "a", "t", "e">>

Alt_secure ==
    <<"s", "e", "c", "u", "r", "e">>

Alt_trusted ==
    <<"t", "r", "u", "s", "t", "e", "d">>

Alt_valid ==
    <<"v", "a", "l", "i", "d">>

\* The literals of the JSON grammar.
Lit_true ==
    <<"t", "r", "u", "e">>

Lit_false ==
    <<"f", "a", "l", "s", "e">>

Lit_null ==
    <<"n", "u", "l", "l">>

\* A reply of the service that is prose instead of JSON.
Garbage ==
    <<"S", "o", "r", "r", "y", ",", " ", "I", " ", "c", "a", "n", "n", "o", "t">>

LowerCaseLetters ==
    <<"a", "b", "c", "d", "e", "f", "g", "h", "i", "j", "k", "l", "m", "n", "o", "p", "q", "r", "s", "t", "u", "v", "w", "x", "y", "z">>

UpperCaseLetters ==
    <<"A", "B", "C", "D", "E", "F", "G", "H", "I", "J", "K", "L", "M", "N", "O", "P", "Q", "R", "S", "T", "U", "V", "W", "X", "Y", "Z">>

\* ------------------------------------------------------------------------
\* JavaScript values
\* ------------------------------------------------------------------------

\* A JavaScript value: its type tag t and, by type, the boolean b, the
\* string s, the array elements a or the object members o (in insertion
\* order, each a record [k, v]).  Unused fields hold FALSE or <<>>.
JSValue(t, b, s, a, o) ==
    [t |-> t, b |-> b, s |-> s, a |-> a, o |-> o]

JSNull ==
    JSValue("null", FALSE, <<>>, <<>>, <<>>)

JSUndefined ==
    JSValue("undefined", FALSE, <<>>, <<>>, <<>>)

JSBool(b) ==
    JSValue("boolean", b, <<>>, <<>>, <<>>)

JSStr(s) ==
    JSValue("string", FALSE, s, <<>>, <<>>)

JSArr(a) ==
    JSValue("array", FALSE, <<>>, a, <<>>)

JSObj(o) ==
    JSValue("object", FALSE, <<>>, <<>>, o)

\* ToBoolean: what `!x`, `x && ...` and `x ? .. : ..` test.
Truthy(v) ==
    CASE v.t = "null" -> FALSE
      [] v.t = "undefined" -> FALSE
      [] v.t = "boolean" -> v.b
      [] v.t = "string" -> v.s # <<>>
      [] OTHER -> TRUE

\* Property read obj.k: undefined when the object has no such property.
Get(obj, k) ==
    IF obj.t = "object" /\ \E i \in 1..Len(obj.o) : obj.o[i].k = k
    THEN obj.o[CHOOSE i \in 1..Len(obj.o) : obj.o[i].k = k].v
    ELSE JSUndefined

\* Property definition while an object literal is parsed: a repeated name
\* keeps its first position and takes the last value.
SetMember(o, k, v) ==
    IF \E i \in 1..Len(o) : o[i].k = k
    THEN [o EXCEPT ![CHOOSE i \in 1..Len(o) : o[i].k = k].v = v]
    ELSE Append(o, [k |-> k, v |-> v])

\* The PhishingAnalysisResult object literal, members in the order of the
\* interface declaration.
PhishingAnalysisResult(isPhishing, confidence, explanation, indicators) ==
    JSObj(<< [k |-> K_isPhishing, v |-> JSBool(isPhishing)],
             [k |-> K_confidence, v |-> JSStr(confidence)],
             [k |-> K_explanation, v |-> JSStr(explanation)],
             [k |-> K_indicators,
              v |-> JSArr([i \in 1..Len(indicators) |-> JSStr(indicators[i])])] >>)

\* ------------------------------------------------------------------------
\* String.prototype.trim and JSON.parse
\* ------------------------------------------------------------------------

IsWhiteSpace(c) ==
    c \in {" ", "\n", "\t", "\r"}

RECURSIVE TrimStart(_)
TrimStart(s) ==
    IF s # <<>> /\ IsWhiteSpace(Head(s)) THEN TrimStart(Tail(s)) ELSE s

RECURSIVE TrimEnd(_)
TrimEnd(s) ==
    IF s # <<>> /\ IsWhiteSpace(s[Len(s)])
    THEN TrimEnd(SubSeq(s, 1, Len(s) - 1))
    ELSE s

Trim(s) ==
    TrimEnd(TrimStart(s))

\* A parse step's outcome: ok, the value read, and the position after it.
Parsed(v, pos) ==
    [ok |-> TRUE, val |-> v, pos |-> pos]

SyntaxError ==
    [ok |-> FALSE, val |-> JSUndefined, pos |-> 0]

RECURSIVE SkipWS(_, _)
SkipWS(t, i) ==
    IF i <= Len(t) /\ IsWhiteSpace(t[i]) THEN SkipWS(t, i + 1) ELSE i

StartsWith(t, i, lit) ==
    /\ i + Len(lit) - 1 <= Len(t)
    /\ SubSeq(t, i, i + Len(lit) - 1) = lit

\* The characters of a string literal from position i, after the opening
\* quote, up to the closing quote.  Escape sequences are not modelled (no
\* modelled reply holds a backslash): a backslash or a raw line break
\* inside the literal is a syntax error.
RECURSIVE ParseString(_, _, _)
ParseString(t, i, acc) ==
    IF i > Len(t) THEN SyntaxError
    ELSE IF t[i] = "\"" THEN Parsed(JSStr(acc), i + 1)
    ELSE IF t[i] \in {"\\", "\n", "\r", "\t"} THEN SyntaxError
    ELSE ParseString(t, i + 1, Append(acc, t[i]))

RECURSIVE ParseValue(_, _)
RECURSIVE ParseElements(_, _, _)
RECURSIVE ParseMembers(_, _, _)

\* One JSON value from position i0: object, array, string or literal.
\* Numbers are not modelled (the declared shape holds none): a digit is a
\* syntax error.
ParseValue(t, i0) ==
    LET i == SkipWS(t, i0) IN
    IF i > Len(t) THEN SyntaxError
    ELSE IF t[i] = "{" THEN
        LET j == SkipWS(t, i + 1) IN
        IF j <= Len(t) /\ t[j] = "}" THEN Parsed(JSObj(<<>>), j + 1)
        ELSE ParseMembers(t, j, <<>>)
    ELSE IF t[i] = "[" THEN
        LET j == SkipWS(t, i + 1) IN
        IF j <= Len(t) /\ t[j] = "]" THEN Parsed(JSArr(<<>>), j + 1)
        ELSE ParseElements(t, j, <<>>)
    ELSE IF t[i] = "\"" THEN ParseString(t, i + 1, <<>>)
    ELSE IF StartsWith(t, i, Lit_true) THEN Parsed(JSBool(TRUE), i + 4)
    ELSE IF StartsWith(t, i, Lit_false) THEN Parsed(JSBool(FALSE), i + 5)
    ELSE IF StartsWith(t, i, Lit_null) THEN Parsed(JSNull, i + 4)
    ELSE SyntaxError

\* The elements of an array from position i up to the closing bracket.
ParseElements(t, i, acc) ==
    LET r == ParseValue(t, i) IN
    IF ~r.ok THEN SyntaxError
    ELSE
        LET j == SkipWS(t, r.pos) IN
        IF j > Len(t) THEN SyntaxError
        ELSE IF t[j] = "," THEN ParseElements(t, j + 1, Append(acc, r.val))
        ELSE IF t[j] = "]" THEN Parsed(JSArr(Append(acc, r.val)), j + 1)
        ELSE SyntaxError

\* The members of an object from position i up to the closing brace.
ParseMembers(t, i, acc) ==
    LET q == SkipWS(t, i) IN
    IF q > Len(t) \/ t[q] # "\"" THEN SyntaxError
    ELSE
        LET key == ParseString(t, q + 1, <<>>) IN
        IF ~key.ok THEN SyntaxError
        ELSE
            LET c == SkipWS(t, key.pos) IN
            IF c > Len(t) \/ t[c] # ":" THEN SyntaxError
            ELSE
                LET r == ParseValue(t, c + 1) IN
                IF ~r.ok THEN SyntaxError
                ELSE
                    LET j == SkipWS(t, r.pos) IN
                    IF j > Len(t) THEN SyntaxError
                    ELSE IF t[j] = ","
                    THEN ParseMembers(t, j + 1, SetMember(acc, key.val.s, r.val))
                    ELSE IF t[j] = "}"
                    THEN Parsed(JSObj(SetMember(acc, key.val.s, r.val)), j + 1)
                    ELSE SyntaxError

\* JSON.parse(text): one value and nothing but white space after it.
JSONParse(t) ==
    LET r == ParseValue(t, 1) IN
    IF r.ok /\ SkipWS(t, r.pos) = Len(t) + 1 THEN r ELSE SyntaxError

\* ------------------------------------------------------------------------
\* The remote service
\* ------------------------------------------------------------------------

Quote(s) ==
    <<"\"">> \o s \o <<"\"">>

RECURSIVE Stringify(_, _)
RECURSIVE StringifyElements(_, _, _)
RECURSIVE StringifyMembers(_, _, _)

\* The JSON text of value v as the service writes it, with the white space
\* sp after every colon and comma.
Stringify(v, sp) ==
    CASE v.t = "boolean" -> IF v.b THEN Lit_true ELSE Lit_false
      [] v.t = "string" -> Quote(v.s)
      [] v.t = "array" -> <<"[">> \o StringifyElements(v.a, 1, sp) \o <<"]">>
      [] v.t = "object" -> <<"{">> \o StringifyMembers(v.o, 1, sp) \o <<"}">>
      [] OTHER -> Lit_null

StringifyElements(a, i, sp) ==
    IF i > Len(a) THEN <<>>
    ELSE Stringify(a[i], sp)
         \o (IF i < Len(a) THEN <<",">> \o sp ELSE <<>>)
         \o StringifyElements(a, i + 1, sp)

StringifyMembers(o, i, sp) ==
    IF i > Len(o) THEN <<>>
    ELSE Quote(o[i].k) \o <<":">> \o sp \o Stringify(o[i].v, sp)
         \o (IF i < Len(o) THEN <<",">> \o sp ELSE <<>>)
         \o StringifyMembers(o, i + 1, sp)

\* The analyses the modelled service can return, each matching the
\* declared response shape.
ExampleResult ==
    PhishingAnalysisResult(TRUE, S_High, S_Expl,
                           <<I_SuspiciousSubdomain, I_UsesHttpNotHttps>>)

SafeResult ==
    PhishingAnalysisResult(FALSE, S_None, S_Expl,
                           <<I_UsesHttpsLower, I_KnownLegitimate, I_TrustedCA>>)

MixedResult ==
    PhishingAnalysisResult(TRUE, S_Low, S_Expl,
                           <<I_InvalidCert, I_HttpOnly, I_Secur>>)

BareResult ==
    PhishingAnalysisResult(FALSE, S_Low, S_Expl, <<>>)

ServiceResults ==
    {ExampleResult, SafeResult, MixedResult, BareResult}

\* The texts a well-behaved service writes for result r: compact, or
\* spaced and wrapped in line breaks.
WellFormedTexts(r) ==
    {Stringify(r, <<>>), <<"\n", " ">> \o Stringify(r, <<" ">>) \o <<"\n">>}

\* A reply cut off in the middle of the object.
Truncated ==
    SubSeq(Stringify(ExampleResult, <<>>), 1, 40)

\* Replies that are not JSON text: cut off, prose, empty.
MalformedTexts ==
    {Truncated, Garbage, <<>>, <<" ">>}

\* How a call of generateContent settles: fulfilled with a response whose
\* text is a string or undefined, or rejected.
Fulfilled(text) ==
    [settled |-> "fulfilled", text |-> text, reason |-> ""]

Rejected(reason) ==
    [settled |-> "rejected", text |-> JSUndefined, reason |-> reason]

SuccessOutcomes ==
    {Fulfilled(JSStr(t)) : t \in UNION {WellFormedTexts(r) : r \in ServiceResults}}

RejectedOutcomes ==
    {Rejected(reason) : reason \in {"network", "timeout", "http"}}

MalformedOutcomes ==
    {Fulfilled(JSStr(t)) : t \in MalformedTexts} \cup {Fulfilled(JSUndefined)}

NullOutcomes ==
    {Fulfilled(JSStr(Lit_null))}

Outcomes ==
    SuccessOutcomes \cup RejectedOutcomes \cup MalformedOutcomes \cup NullOutcomes

\* ------------------------------------------------------------------------
\* The indicator keyword test
\* ------------------------------------------------------------------------

Alternatives ==
    <<Alt_HTTPS, Alt_legitimate, Alt_secure, Alt_trusted, Alt_valid>>

\* Canonicalize of an ignore-case regular expression without the u flag:
\* the character's upper case (only ASCII letters are modelled).
Canonicalize(ch) ==
    IF \E i \in 1..Len(LowerCaseLetters) : LowerCaseLetters[i] = ch
    THEN UpperCaseLetters[CHOOSE i \in 1..Len(LowerCaseLetters) : LowerCaseLetters[i] = ch]
    ELSE ch

\* Alternative alt matches the characters of s that start at position i.
MatchesAt(s, i, alt) ==
    /\ i + Len(alt) - 1 <= Len(s)
    /\ \A j \in 1..Len(alt) : Canonicalize(s[i + j - 1]) = Canonicalize(alt[j])

\* Case-sensitive matching: the regular expression without its i flag.
IsSafeCaseSensitive(indicator) ==
    \E i \in 1..Len(indicator) : \E a \in 1..Len(Alternatives) :
        /\ i + Len(Alternatives[a]) - 1 <= Len(indicator)
        /\ SubSeq(indicator, i, i + Len(Alternatives[a]) - 1) = Alternatives[a]

\* Matching only at the start of the string: the regular expression
\* anchored with ^.
IsSafeAnchored(indicator) ==
    \E a \in 1..Len(Alternatives) : MatchesAt(indicator, 1, Alternatives[a])

\* /(HTTPS|legitimate|secure|trusted|valid)/i.test(indicator): the
\* unanchored expression matches when some alternative matches at some
\* position.
IsSafe(indicator) ==
    \E i \in 1..Len(indicator) : \E a \in 1..Len(Alternatives) :
        MatchesAt(indicator, i, Alternatives[a])

\* ------------------------------------------------------------------------
\* analyzeUrlForPhishing
\* ------------------------------------------------------------------------

\* The absent value of a string-or-null state (error).
null ==
    "<null>"

ValidationMsg ==
    "Please enter a URL to analyze."

GenericMsg ==
    "Failed to analyze the URL. The AI service may be unavailable or the URL may be invalid."

UnknownMsg ==
    "An unknown error occurred."

Returns(v) ==
    [threw |-> FALSE, value |-> v, message |-> ""]

Throws(message) ==
    [threw |-> TRUE, value |-> JSUndefined, message |-> message]

\* analyzeUrlForPhishing without its try/catch: the caller sees the cause.
AnalyzeUrlForPhishingUncaught(outcome) ==
    IF outcome.settled = "rejected" THEN Throws(outcome.reason)
    ELSE IF outcome.text.t # "string" THEN Throws("TypeError")
    ELSE
        LET parsed == JSONParse(Trim(outcome.text.s)) IN
        IF parsed.ok THEN Returns(parsed.val) ELSE Throws("SyntaxError")

\* analyzeUrlForPhishing without JSON.parse: the trimmed text is returned.
AnalyzeUrlForPhishingUnparsed(outcome) ==
    IF outcome.settled = "rejected" THEN Throws(GenericMsg)
    ELSE IF outcome.text.t # "string" THEN Throws(GenericMsg)
    ELSE Returns(JSStr(Trim(outcome.text.s)))

\* The promise analyzeUrlForPhishing returns, given how generateContent
\* settled.  A rejection, a response without text (trim of undefined) and
\* a syntax error of JSON.parse all land in the one catch block.
AnalyzeUrlForPhishing(outcome) ==
    IF outcome.settled = "rejected" THEN Throws(GenericMsg)
    ELSE IF outcome.text.t # "string" THEN Throws(GenericMsg)
    ELSE
        LET parsed == JSONParse(Trim(outcome.text.s)) IN
        IF parsed.ok THEN Returns(parsed.val) ELSE Throws(GenericMsg)

\* ------------------------------------------------------------------------
\* State
\* ------------------------------------------------------------------------

VARIABLES
    currentView,  \* the shell's view
    mounts,       \* panel instances mounted so far; the last is the live one
    url,          \* the panel's state: the input's text
    isLoading,    \* the panel's state
    result,       \* the panel's state: a JavaScript value, null when absent
    error,        \* the panel's state: a message or null
    pending,      \* the calls of generateContent that have not settled
    calls,        \* the calls of generateContent issued so far
    analyzedUrl   \* the URL sent in the request that produced result

vars ==
    <<currentView, mounts, url, isLoading, result, error, pending, calls, analyzedUrl>>

Views ==
    {"PhishingDetector", "NetworkMonitor", "FileIntegrity", "PasswordManager",
     "SecureLogin", "About"}

\* The texts the user types into the input.
Urls ==
    {"", "http://paypa1-secure-login.com", "https://example.com"}

\* renderView: the panel is in the tree exactly under its view.
Mounted ==
    currentView = "PhishingDetector"

\* The four useState initial values of a panel instance.
PanelInit ==
    /\ url' = ""
    /\ isLoading' = FALSE
    /\ result' = JSNull
    /\ error' = null

Init ==
    /\ currentView = "PhishingDetector"
    /\ mounts = 1
    /\ url = ""
    /\ isLoading = FALSE
    /\ result = JSNull
    /\ error = null
    /\ pending = {}
    /\ calls = 0
    /\ analyzedUrl = ""

\* ------------------------------------------------------------------------
\* What the panel renders
\* ------------------------------------------------------------------------

InputDisabled ==
    isLoading

ButtonDisabledNever ==
    FALSE

ButtonDisabled ==
    isLoading

\* {error && <div>{error}</div>}: the banner's text, null when no banner.
ErrorBanner ==
    IF Mounted /\ error # null /\ error # "" THEN error ELSE null

\* {result && (...)}: the result card is rendered.
ResultShown ==
    Mounted /\ Truthy(result)

StatusPill(r) ==
    IF ~Truthy(r) THEN null
    ELSE IF Truthy(Get(r, K_isPhishing)) THEN "Phishing Detected"
    ELSE "URL Appears Safe"

ThreatLevel(r) ==
    IF Truthy(Get(r, K_isPhishing)) THEN "Dangerous" ELSE "Safe"

ConfidenceShown(r) ==
    Get(r, K_confidence)

\* The text under 'URL Analyzed': the input's current text.
UrlAnalyzedShown ==
    url

IndicatorIcon(isPositive) ==
    IF isPositive THEN "text-sentinel-green" ELSE "text-sentinel-red"

\* One row per indicator: its icon and its text.
IndicatorRows(r) ==
    LET indicators == Get(r, K_indicators).a IN
    [i \in 1..Len(indicators) |->
        [icon |-> IndicatorIcon(IsSafe(indicators[i].s)),
         text |-> indicators[i].s]]

\* ------------------------------------------------------------------------
\* Operations
\* ------------------------------------------------------------------------

\* onChange of the input, which is disabled while loading.
SetUrl(v) ==
    /\ Mounted
    /\ ~InputDisabled
    /\ v # url
    /\ url' = v
    /\ UNCHANGED <<currentView, mounts, isLoading, result, error, pending, calls,
                   analyzedUrl>>

\* Every text counts as a URL to analyze.
UrlMissingNever(u) ==
    FALSE

\* `!url`: the text is empty.
UrlMissing(u) ==
    u = ""

\* handleAnalysis, the button's onClick, up to its await.  The button is
\* disabled while loading.
HandleAnalysis ==
    /\ Mounted
    /\ ~ButtonDisabled
    /\ IF UrlMissing(url)
       THEN /\ error' = ValidationMsg
            /\ UNCHANGED <<isLoading, result, pending, calls, analyzedUrl>>
       ELSE /\ calls < MaxCalls
            /\ isLoading' = TRUE
            /\ error' = null
            /\ result' = JSNull
            /\ analyzedUrl' = ""
            /\ pending' = pending \cup {[id |-> calls + 1, inst |-> mounts, url |-> url]}
            /\ calls' = calls + 1
    /\ UNCHANGED <<currentView, mounts, url>>

\* State setters of any instance reach the mounted one.
OwnerMountedAlways(req) ==
    Mounted

\* The instance that issued req is still the mounted one: the state
\* setters of an unmounted instance change nothing.
OwnerMounted(req) ==
    Mounted /\ req.inst = mounts

\* handleAnalysis after its await, without the finally block: a failed
\* analysis leaves isLoading set.
SettleWithoutFinally(req, outcome) ==
    LET analysis == AnalyzeUrlForPhishing(outcome) IN
    /\ req \in pending
    /\ pending' = pending \ {req}
    /\ IF OwnerMounted(req)
       THEN IF analysis.threw
            THEN /\ error' = (IF analysis.message # "" THEN analysis.message
                              ELSE UnknownMsg)
                 /\ UNCHANGED <<result, analyzedUrl, isLoading>>
            ELSE /\ result' = analysis.value
                 /\ analyzedUrl' = (IF analysis.value # JSNull THEN req.url ELSE "")
                 /\ isLoading' = FALSE
                 /\ UNCHANGED error
       ELSE UNCHANGED <<isLoading, result, error, analyzedUrl>>
    /\ UNCHANGED <<currentView, mounts, url, calls>>

\* handleAnalysis after its await: the call req settles with outcome.
Settle(req, outcome) ==
    LET analysis == AnalyzeUrlForPhishing(outcome) IN
    /\ req \in pending
    /\ pending' = pending \ {req}
    /\ IF OwnerMounted(req)
       THEN /\ IF analysis.threw
               THEN /\ error' = (IF analysis.message # "" THEN analysis.message
                                 ELSE UnknownMsg)
                    /\ UNCHANGED <<result, analyzedUrl>>
               ELSE /\ result' = analysis.value
                    /\ analyzedUrl' = (IF analysis.value # JSNull THEN req.url ELSE "")
                    /\ UNCHANGED error
            /\ isLoading' = FALSE
       ELSE UNCHANGED <<isLoading, result, error, analyzedUrl>>
    /\ UNCHANGED <<currentView, mounts, url, calls>>

\* setCurrentView from the sidebar: leaving the panel's view unmounts the
\* instance and its state with it; entering it mounts a new instance.
SetCurrentView(v) ==
    /\ v # currentView
    /\ currentView' = v
    /\ IF v = "PhishingDetector"
       THEN /\ mounts < MaxMounts
            /\ mounts' = mounts + 1
            /\ PanelInit
            /\ analyzedUrl' = ""
       ELSE IF Mounted
       THEN /\ PanelInit
            /\ analyzedUrl' = ""
            /\ UNCHANGED mounts
       ELSE UNCHANGED <<mounts, url, isLoading, result, error, analyzedUrl>>
    /\ UNCHANGED <<pending, calls>>

Next ==
    \/ \E v \in Urls : SetUrl(v)
    \/ HandleAnalysis
    \/ \E req \in pending : \E outcome \in Outcomes : Settle(req, outcome)
    \/ \E v \in Views : SetCurrentView(v)

Spec ==
    Init /\ [][Next]_vars


\* ------------------------------------------------------------------------
\* Properties
\* ------------------------------------------------------------------------

\* The requests issued by the mounted instance that have not settled.
LiveRequests ==
    {req \in pending : Mounted /\ req.inst = mounts}

\* The outcomes of a remote call that fails: a rejection (network error,
\* timeout raised by the client, non-2xx), a response without text, a text
\* that is not JSON.
FailureOutcomes ==
    RejectedOutcomes \cup MalformedOutcomes

ToLowerCase(s) ==
    [i \in 1..Len(s) |->
        IF \E n \in 1..Len(UpperCaseLetters) : UpperCaseLetters[n] = s[i]
        THEN LowerCaseLetters[CHOOSE n \in 1..Len(UpperCaseLetters) : UpperCaseLetters[n] = s[i]]
        ELSE s[i]]

PositiveKeywords ==
    {Alt_HTTPS, Alt_legitimate, Alt_secure, Alt_trusted, Alt_valid}

\* s contains keyword kw as a substring, letter case aside.
ContainsIgnoringCase(s, kw) ==
    \E i \in 0..(Len(s) - Len(kw)) :
        ToLowerCase(SubSeq(s, i + 1, i + Len(kw))) = ToLowerCase(kw)

\* C1: a submission with an empty URL issues no remote call and leaves the
\* validation message displayed as the error.
C1_EmptySubmit ==
    [][(HandleAnalysis /\ url = "") =>
         /\ calls' = calls
         /\ pending' = pending
         /\ ErrorBanner' = ValidationMsg]_vars

\* An empty submission made after an earlier request has completed.
C1_Witness ==
    /\ Mounted
    /\ url = ""
    /\ error = ValidationMsg
    /\ calls = 1
    /\ pending = {}

\* C2: while a request of the mounted instance is in flight the button and
\* the input are disabled, and when it completes, by success or by failure,
\* both are enabled again.
C2_DisabledWhileInFlight ==
    /\ [](LiveRequests # {} => ButtonDisabled /\ InputDisabled)
    /\ [][(LiveRequests # {} /\ LiveRequests' = {} /\ Mounted') =>
            (~isLoading' /\ ~ButtonDisabled' /\ ~InputDisabled')]_vars

\* The second request of the session has failed and the button is enabled.
C2_Witness ==
    /\ Mounted
    /\ calls = 2
    /\ LiveRequests = {}
    /\ error = GenericMsg
    /\ ~ButtonDisabled

\* C3: a remote call that fails, whatever the failure, shows the one
\* generic message and renders no result.
C3_FailureShowsGenericError ==
    [][\A req \in pending : \A outcome \in FailureOutcomes :
         (Settle(req, outcome) /\ req \in LiveRequests) =>
            (ErrorBanner' = GenericMsg /\ ~ResultShown')]_vars

\* A failed request: the generic message is shown, no result is held.
C3_Witness ==
    /\ Mounted
    /\ ~isLoading
    /\ error = GenericMsg
    /\ result = JSNull
    /\ pending = {}

\* C4: when the service answers with the JSON text of a result of the
\* declared shape, the panel's result is that result, with its four
\* properties, and no error is displayed.
C4_SuccessMirrorsResponse ==
    [][\A req \in pending : \A r \in ServiceResults : \A t \in WellFormedTexts(r) :
         (Settle(req, Fulfilled(JSStr(t))) /\ req \in LiveRequests) =>
            /\ result' = r
            /\ \A k \in {K_isPhishing, K_confidence, K_explanation, K_indicators} :
                  Get(result', k) = Get(r, k) /\ Get(result', k) # JSUndefined
            /\ error' = null
            /\ ErrorBanner' = null]_vars

\* A second request has succeeded after an earlier one.
C4_Witness ==
    /\ Mounted
    /\ result = SafeResult
    /\ error = null
    /\ calls = 2

\* C5: no instance has two requests in flight, a submission of a non-empty
\* URL issues exactly one call, and nothing else issues a call.
C5_OneRequestPerInstance ==
    /\ [](\A i \in 1..mounts : Cardinality({req \in pending : req.inst = i}) <= 1)
    /\ [](\A req \in pending : req.inst \in 1..mounts)
    /\ [][(HandleAnalysis /\ url # "") =>
            (calls' = calls + 1 /\ Cardinality(pending') = Cardinality(pending) + 1)]_vars
    /\ [][calls' # calls => (HandleAnalysis /\ url # "")]_vars
    /\ [][pending' \subseteq pending \/ calls' = calls + 1]_vars

\* Two requests in flight, one of each instance.
C5_Witness ==
    /\ Cardinality(pending) = 2
    /\ Cardinality(LiveRequests) = 1

\* C6: an indicator's icon is the positive one exactly when the indicator
\* contains one of the five keywords, letter case aside; otherwise it is
\* the negative one.
C6_IndicatorClassification ==
    ResultShown =>
        \A i \in 1..Len(IndicatorRows(result)) :
            LET row == IndicatorRows(result)[i] IN
            /\ row.icon = IF \E kw \in PositiveKeywords : ContainsIgnoringCase(row.text, kw)
                          THEN "text-sentinel-green"
                          ELSE "text-sentinel-red"

\* Results with keywords in lower and upper case and near misses are shown.
C6_Witness ==
    /\ ResultShown
    /\ result = MixedResult
    /\ calls = 3

\* C7 as stated: for the example result both indicator rows have the
\* negative icon.
C7_BothRowsNegative ==
    (ResultShown /\ result = ExampleResult) =>
        /\ StatusPill(result) = "Phishing Detected"
        /\ ThreatLevel(result) = "Dangerous"
        /\ ConfidenceShown(result) = JSStr(S_High)
        /\ Len(IndicatorRows(result)) = 2
        /\ IndicatorRows(result)[1].icon = "text-sentinel-red"
        /\ IndicatorRows(result)[2].icon = "text-sentinel-red"

\* C7 amended: for the example result the pill is "Phishing Detected", the
\* threat level "Dangerous", the confidence "High", and of the two rows the
\* first has the negative icon and the second, "Uses HTTP not HTTPS", the
\* positive one.
C7_ExampleRendering ==
    (ResultShown /\ result = ExampleResult) =>
        /\ StatusPill(result) = "Phishing Detected"
        /\ ThreatLevel(result) = "Dangerous"
        /\ ConfidenceShown(result) = JSStr(S_High)
        /\ Len(IndicatorRows(result)) = 2
        /\ IndicatorRows(result)[1] =
              [icon |-> "text-sentinel-red", text |-> I_SuspiciousSubdomain]
        /\ IndicatorRows(result)[2] =
              [icon |-> "text-sentinel-green", text |-> I_UsesHttpNotHttps]

\* The example: the result of analyzing http://paypa1-secure-login.com.
C7_Witness ==
    /\ ResultShown
    /\ result = ExampleResult
    /\ analyzedUrl = "http://paypa1-secure-login.com"

\* C8: a new request drops the held result; a newly mounted instance has
\* no result, no error and is not loading; a request of an unmounted
\* instance that settles changes nothing of the mounted instance.
C8_ResultDiscarded ==
    /\ [][calls' # calls => (result' = JSNull /\ ~ResultShown')]_vars
    /\ [][mounts' # mounts =>
            (url' = "" /\ ~isLoading' /\ result' = JSNull /\ error' = null)]_vars
    /\ [][\A req \in pending : \A outcome \in Outcomes :
            (Settle(req, outcome) /\ req \notin LiveRequests) =>
               UNCHANGED <<url, isLoading, result, error>>]_vars

\* A request of the first instance is in flight under the second instance.
C8_Witness ==
    /\ Mounted
    /\ mounts = 2
    /\ \E req \in pending : req.inst = 1
    /\ result = JSNull
    /\ error = null
    /\ ~isLoading

\* C9: an error and a result are never held together.
C9_ErrorAndResultExclusive ==
    ~(error # null /\ result # JSNull)

\* C10: the text under 'URL Analyzed' is the URL sent in the request that
\* produced the displayed result.
C10_UrlAnalyzedIsRequestUrl ==
    ResultShown => UrlAnalyzedShown = analyzedUrl

====
